---- MODULE Spec2Model ----
(***************************************************************************)
(* A model of dataset/views.py of cultivar: the HTML views of the dataset  *)
(* application (create, upload, list, detail panels) and the REST view     *)
(* sets (datasets, starred datasets), over an abstract relational store.   *)
(*                                                                         *)
(* dataset/models.py, dataset/forms.py and dataset/serializers.py are not  *)
(* part of the reviewed source: the storage constraints, the "latest"      *)
(* ordering and the validation of the star serializer are modelled from    *)
(* the specification's data model (sections 3 to 5).                       *)
(***************************************************************************)
EXTENDS Integers, FiniteSets, Sequences

(* ------------------------------ bounds -------------------------------- *)

NumUsers == 2
NumNames == 2
NumContents == 1
MaxDatasets == 2
MaxFiles == 2
MaxStars == 2
MaxClock == 1
NumWorkers == 2

Users == 1..NumUsers
Names == 1..NumNames
Contents == 1..NumContents
DatasetIds == 1..MaxDatasets
Workers == 1..NumWorkers

VARIABLES
    datasets,      \* Dataset rows: [id, owner, name, created]
    files,         \* DataFile rows: [id, dataset, content]
    stars,         \* StarredDataset rows: [id, user, dataset]
    nextDataset,   \* next primary key of each table
    nextFile,
    nextStar,
    clock,         \* the wall clock that stamps "created"
    resp,          \* the request in hand with its response, until it is sent
    workers        \* requests in flight, split at validate / save

vars == <<datasets, files, stars, nextDataset, nextFile, nextStar, clock, resp, workers>>
store == <<datasets, files, stars>>
counters == <<nextDataset, nextFile, nextStar>>

(* ----------------------------- constants ------------------------------ *)

DuplicateDatasetMsg == "A dataset with this name already exists, please choose another."
DuplicateFileMsg == "Duplicate file detected! Cannot upload the same file twice."
StarCreatedBody == "starred status created"
StarDeletedBody == "starred status deleted"

PanelViews == {"DatasetDetailView", "DatasetSchemaView", "DatasetExploreView", "DatasetSettingsView"}

panel_name(view) ==
    CASE view = "DatasetDetailView" -> "files"
      [] view = "DatasetSchemaView" -> "schema"
      [] view = "DatasetExploreView" -> "explore"
      [] view = "DatasetSettingsView" -> "settings"

(* A response with nothing set; every handler fills in what it produces. *)
Blank(handler, user) ==
    [handler |-> handler, user |-> user, account |-> 0, slug |-> 0,
     dataset_id |-> 0, content |-> 0, valid |-> TRUE,
     outcome |-> "none", errors |-> "", body |-> "",
     ctxKind |-> "none", ctxId |-> 0, panel |-> "",
     num |-> 0, hasLatest |-> FALSE, latest |-> 0,
     list |-> <<>>, target |-> 0]

IdleWorker == [pc |-> "idle", kind |-> "none", user |-> 0, arg |-> 0, outcome |-> "none"]

Init ==
    /\ datasets = {}
    /\ files = {}
    /\ stars = {}
    /\ nextDataset = 1
    /\ nextFile = 1
    /\ nextStar = 1
    /\ clock = 0
    /\ resp = Blank("none", 0)
    /\ workers = [w \in Workers |-> IdleWorker]

(* ------------------------------ storage ------------------------------- *)

\* The (owner, name) uniqueness constraint of Dataset.
DatasetIntegrityError(owner, name) ==
    \E d \in datasets : d.owner = owner /\ d.name = name

\* The (dataset, content) uniqueness constraint of DataFile.
DataFileIntegrityError(dataset, content) ==
    \E f \in files : f.dataset = dataset /\ f.content = content

\* The (user, dataset) uniqueness constraint of StarredDataset.
StarIntegrityError(user, dataset) ==
    \E s \in stars : s.user = user /\ s.dataset = dataset

NewDataset(owner, name) ==
    [id |-> nextDataset, owner |-> owner, name |-> name, created |-> clock]

NewDataFile(dataset, content) ==
    [id |-> nextFile, dataset |-> dataset, content |-> content]

NewStar(user, dataset) ==
    [id |-> nextStar, user |-> user, dataset |-> dataset]

\* Dataset.objects.latest(): the row that the model's get_latest_by puts first.
Latest(rows) ==
    CHOOSE d \in rows : \A e \in rows : e.created <= d.created

\* The rows of a query set in its default order (by primary key).
RECURSIVE Ordered(_)
Ordered(rows) ==
    IF rows = {} THEN <<>>
    ELSE LET r == CHOOSE x \in rows : \A y \in rows : x.id <= y.id
         IN <<r>> \o Ordered(rows \ {r})

\* QuerySet.first(): the first row in the default order, or no row.
First(rows) == IF rows = {} THEN {} ELSE {Ordered(rows)[1]}

\* The server takes one request at a time: no response is waiting to be sent.
Idle == resp.handler = "none"

\* The response goes out and the next request can come in.
Respond ==
    /\ ~Idle
    /\ resp' = Blank("none", 0)
    /\ UNCHANGED <<store, counters, clock, workers>>

\* Time passes between two requests.
Tick ==
    /\ Idle
    /\ clock < MaxClock
    /\ clock' = clock + 1
    /\ UNCHANGED <<store, counters, resp, workers>>

(* ------------------------- DatasetCreateView -------------------------- *)

\* form_valid without its except clause: the IntegrityError leaves the view.
DatasetCreateFormValidUncaught(r, user, name) ==
    IF DatasetIntegrityError(user, name)
    THEN /\ resp' = [r EXCEPT !.outcome = "IntegrityError"]
         /\ UNCHANGED <<datasets, nextDataset>>
    ELSE /\ nextDataset <= MaxDatasets
         /\ datasets' = datasets \cup {NewDataset(user, name)}
         /\ nextDataset' = nextDataset + 1
         /\ resp' = [r EXCEPT !.outcome = "redirect", !.target = nextDataset]

\* form_valid: the save of the model form, and the redirect to get_success_url();
\* an IntegrityError becomes a non-field error of the re-rendered form.
DatasetCreateFormValid(r, user, name) ==
    IF DatasetIntegrityError(user, name)
    THEN /\ resp' = [r EXCEPT !.outcome = "render", !.errors = DuplicateDatasetMsg]
         /\ UNCHANGED <<datasets, nextDataset>>
    ELSE /\ nextDataset <= MaxDatasets
         /\ datasets' = datasets \cup {NewDataset(user, name)}
         /\ nextDataset' = nextDataset + 1
         /\ resp' = [r EXCEPT !.outcome = "redirect", !.target = nextDataset]

\* POST of the creation form by a logged-in user.
DatasetCreatePost ==
    /\ Idle
    /\ \E user \in Users, name \in Names, valid \in BOOLEAN :
        LET r == [Blank("DatasetCreateView", user) EXCEPT
                      !.account = user, !.slug = name, !.valid = valid]
        IN /\ IF valid
              THEN DatasetCreateFormValid(r, user, name)
              ELSE /\ resp' = [r EXCEPT !.outcome = "render"]
                   /\ UNCHANGED <<datasets, nextDataset>>
           /\ UNCHANGED <<files, stars, nextFile, nextStar, clock, workers>>

(* ------------------------- DataFileUploadView ------------------------- *)

NoObject == [kind |-> "none", id |-> 0]

\* Dataset.objects.get(owner__name=account, name=slug)
DatasetsGet(account, slug) ==
    {d \in datasets : d.owner = account /\ d.name = slug}

\* get_context_data: context['dataset'] is self.object when the view has one,
\* and the dataset looked up from the URL otherwise.
UploadContext(r, object, account, slug) ==
    IF object.kind # "none"
    THEN [r EXCEPT !.outcome = "render", !.ctxKind = object.kind, !.ctxId = object.id]
    ELSE LET found == DatasetsGet(account, slug)
         IN CASE Cardinality(found) = 0 -> [r EXCEPT !.outcome = "DoesNotExist"]
              [] Cardinality(found) = 1 ->
                    [r EXCEPT !.outcome = "render", !.ctxKind = "Dataset",
                              !.ctxId = (CHOOSE d \in found : TRUE).id]
              [] OTHER -> [r EXCEPT !.outcome = "MultipleObjectsReturned"]

\* form_valid with self.object bound to the unsaved instance before the save.
UploadFormValidEarlyObject(r, account, slug, dataset, content) ==
    IF DataFileIntegrityError(dataset, content)
    THEN /\ resp' = UploadContext([r EXCEPT !.errors = DuplicateFileMsg],
                                  [kind |-> "DataFile", id |-> nextFile], account, slug)
         /\ UNCHANGED <<files, nextFile>>
    ELSE /\ nextFile <= MaxFiles
         /\ files' = files \cup {NewDataFile(dataset, content)}
         /\ nextFile' = nextFile + 1
         /\ resp' = [r EXCEPT !.outcome = "redirect", !.target = dataset]

\* form_valid without its except clause.
UploadFormValidUncaught(r, account, slug, dataset, content) ==
    IF DataFileIntegrityError(dataset, content)
    THEN /\ resp' = [r EXCEPT !.outcome = "IntegrityError"]
         /\ UNCHANGED <<files, nextFile>>
    ELSE /\ nextFile <= MaxFiles
         /\ files' = files \cup {NewDataFile(dataset, content)}
         /\ nextFile' = nextFile + 1
         /\ resp' = [r EXCEPT !.outcome = "redirect", !.target = dataset]

\* form_valid: self.object = form.save(), then the redirect to the dataset of the
\* saved file; on IntegrityError self.object stays unset and the form is
\* re-rendered (form_invalid builds the context again).
UploadFormValid(r, account, slug, dataset, content) ==
    IF DataFileIntegrityError(dataset, content)
    THEN /\ resp' = UploadContext([r EXCEPT !.errors = DuplicateFileMsg],
                                  NoObject, account, slug)
         /\ UNCHANGED <<files, nextFile>>
    ELSE /\ nextFile <= MaxFiles
         /\ files' = files \cup {NewDataFile(dataset, content)}
         /\ nextFile' = nextFile + 1
         /\ resp' = [r EXCEPT !.outcome = "redirect", !.target = dataset]

\* GET of the upload page under {account}/{slug}.
UploadGet ==
    /\ Idle
    /\ \E account \in Users, slug \in Names :
        LET r == [Blank("DataFileUploadView.get", 0) EXCEPT
                      !.account = account, !.slug = slug]
        IN /\ resp' = UploadContext(r, NoObject, account, slug)
           /\ UNCHANGED <<store, counters, clock, workers>>

\* POST of the upload form under {account}/{slug}: the form names its dataset and
\* carries the file; it is valid when its fields are and the dataset exists.
UploadPost ==
    /\ Idle
    /\ \E account \in Users, slug \in Names,
       dataset \in DatasetIds, content \in Contents, fields \in BOOLEAN :
        LET valid == fields /\ \E d \in datasets : d.id = dataset
            r == [Blank("DataFileUploadView.post", 0) EXCEPT
                      !.account = account, !.slug = slug, !.dataset_id = dataset,
                      !.content = content, !.valid = valid]
        IN /\ IF valid
              THEN UploadFormValid(r, account, slug, dataset, content)
              ELSE /\ resp' = UploadContext(r, NoObject, account, slug)
                   /\ UNCHANGED <<files, nextFile>>
           /\ UNCHANGED <<datasets, stars, nextDataset, nextStar, clock, workers>>

(* -------------------------- DatasetListView --------------------------- *)

\* get_context_data with the guard on the count left out.
ListContextUnguarded(r) ==
    IF datasets = {}
    THEN [r EXCEPT !.outcome = "DoesNotExist", !.num = Cardinality(datasets)]
    ELSE [r EXCEPT !.outcome = "render", !.num = Cardinality(datasets),
                   !.hasLatest = TRUE, !.latest = Latest(datasets).created]

\* get_context_data: the count, and the latest creation time when there is one.
ListContext(r) ==
    LET num_datasets == Cardinality(datasets)
    IN IF num_datasets > 0
       THEN [r EXCEPT !.outcome = "render", !.num = num_datasets,
                      !.hasLatest = TRUE, !.latest = Latest(datasets).created]
       ELSE [r EXCEPT !.outcome = "render", !.num = num_datasets]

DatasetList ==
    /\ Idle
    /\ resp' = ListContext(Blank("DatasetListView", 0))
    /\ UNCHANGED <<store, counters, clock, workers>>

(* ------------------- DatasetDetailView and its panels ------------------ *)

\* get_queryset without the filter on the owner.
DetailQuerysetAll(account) == datasets

\* get_queryset: the datasets of the account named in the URL.
DetailQueryset(account) == {d \in datasets : d.owner = account}

\* SingleObjectMixin.get_object over get_queryset(), by slug_field = "name":
\* no row is Http404, one row is the object, and get() of several rows raises.
DetailObject(r, account, slug) ==
    LET found == {d \in DetailQueryset(account) : d.name = slug}
    IN CASE Cardinality(found) = 0 -> [r EXCEPT !.outcome = "Http404"]
         [] Cardinality(found) = 1 ->
               [r EXCEPT !.outcome = "render", !.ctxKind = "Dataset",
                         !.ctxId = (CHOOSE d \in found : TRUE).id,
                         !.panel = panel_name(r.handler)]
         [] OTHER -> [r EXCEPT !.outcome = "MultipleObjectsReturned"]

DatasetDetail ==
    /\ Idle
    /\ \E view \in PanelViews, account \in Users, slug \in Names :
        LET r == [Blank(view, 0) EXCEPT !.account = account, !.slug = slug]
        IN /\ resp' = DetailObject(r, account, slug)
           /\ UNCHANGED <<store, counters, clock, workers>>

(* --------------------------- DatasetViewSet ---------------------------- *)

\* DELETE of one dataset through the REST resource; its files and stars go
\* with it.
DatasetDestroy ==
    /\ Idle
    /\ \E d \in datasets :
        /\ datasets' = datasets \ {d}
        /\ files' = {f \in files : f.dataset # d.id}
        /\ stars' = {s \in stars : s.dataset # d.id}
        /\ resp' = [Blank("DatasetViewSet.destroy", 0) EXCEPT
                        !.dataset_id = d.id, !.outcome = "response"]
        /\ UNCHANGED <<counters, clock, workers>>

(* ----------------------- StarredDatasetsViewSet ------------------------ *)

\* The serialized form of one star.
StarData(s) == [dataset |-> s.dataset, user |-> s.user]

\* The serialized rows of a query set, in its order.
Serialized(rows) ==
    LET ordered == Ordered(rows)
    IN [i \in 1..Len(ordered) |-> StarData(ordered[i])]

\* list without the filter on the requesting user.
StarListAll(r, user) ==
    [r EXCEPT !.outcome = "response", !.list = Serialized(stars)]

\* list: the stars of the requesting user, serialized one by one.
StarListResponse(r, user) ==
    LET datasets_stars == {s \in stars : s.user = user}
    IN [r EXCEPT !.outcome = "response", !.list = Serialized(datasets_stars)]

StarList ==
    /\ Idle
    /\ \E user \in Users :
        /\ resp' = StarListResponse(Blank("StarredDatasetsViewSet.list", user), user)
        /\ UNCHANGED <<store, counters, clock, workers>>

\* serialized_data.is_valid(): the dataset exists and the user has not starred it.
StarSerializerIsValid(user, dataset_id) ==
    /\ \E d \in datasets : d.id = dataset_id
    /\ ~StarIntegrityError(user, dataset_id)

\* The save of a validated star and the acknowledgment; an IntegrityError of the
\* save is not caught by create.
StarCreateSave(r, user, dataset_id) ==
    IF StarIntegrityError(user, dataset_id)
    THEN /\ resp' = [r EXCEPT !.outcome = "IntegrityError"]
         /\ UNCHANGED <<stars, nextStar>>
    ELSE /\ nextStar <= MaxStars
         /\ stars' = stars \cup {NewStar(user, dataset_id)}
         /\ nextStar' = nextStar + 1
         /\ resp' = [r EXCEPT !.outcome = "response", !.body = StarCreatedBody]

\* create answering a failed validation with a bad request.
StarCreateBadRequest(r, user, dataset_id) ==
    IF StarSerializerIsValid(user, dataset_id)
    THEN StarCreateSave(r, user, dataset_id)
    ELSE /\ resp' = [r EXCEPT !.outcome = "BadRequest"]
         /\ UNCHANGED <<stars, nextStar>>

\* create: save when the serializer is valid, Http404 otherwise.
StarCreateHandler(r, user, dataset_id) ==
    IF StarSerializerIsValid(user, dataset_id)
    THEN StarCreateSave(r, user, dataset_id)
    ELSE /\ resp' = [r EXCEPT !.outcome = "Http404"]
         /\ UNCHANGED <<stars, nextStar>>

StarCreate ==
    /\ Idle
    /\ \E user \in Users, dataset_id \in DatasetIds :
        LET r == [Blank("StarredDatasetsViewSet.create", user) EXCEPT
                      !.dataset_id = dataset_id,
                      !.valid = StarSerializerIsValid(user, dataset_id)]
        IN /\ StarCreateHandler(r, user, dataset_id)
           /\ UNCHANGED <<datasets, files, nextDataset, nextFile, clock, workers>>

\* destroy with a guard on the missing star.
StarDestroyGuarded(r, user, dataset_id) ==
    LET dataset_starred == First({s \in stars : s.user = user /\ s.dataset = dataset_id})
    IN /\ stars' = stars \ dataset_starred
       /\ resp' = [r EXCEPT !.outcome = "response", !.body = StarDeletedBody]

\* destroy: delete() on the first star of (user, dataset_id); with no such star
\* first() is None and the call fails.
StarDestroyHandler(r, user, dataset_id) ==
    LET dataset_starred == First({s \in stars : s.user = user /\ s.dataset = dataset_id})
    IN IF dataset_starred = {}
       THEN /\ resp' = [r EXCEPT !.outcome = "AttributeError"]
            /\ UNCHANGED stars
       ELSE /\ stars' = stars \ dataset_starred
            /\ resp' = [r EXCEPT !.outcome = "response", !.body = StarDeletedBody]

StarDestroy ==
    /\ Idle
    /\ \E user \in Users, dataset_id \in DatasetIds :
        LET r == [Blank("StarredDatasetsViewSet.destroy", user) EXCEPT
                      !.dataset_id = dataset_id]
        IN /\ StarDestroyHandler(r, user, dataset_id)
           /\ UNCHANGED <<datasets, files, counters, clock, workers>>

(* --------------------------- specification ----------------------------- *)

Next ==
    \/ Tick
    \/ DatasetCreatePost
    \/ UploadGet
    \/ UploadPost
    \/ DatasetList
    \/ DatasetDetail
    \/ DatasetDestroy
    \/ StarList
    \/ StarCreate
    \/ StarDestroy
    \/ Respond

Spec == Init /\ [][Next]_vars

(* The three features share only the Dataset table: files and stars never    *)
(* read or write one another. Each is also specified on its own, with the    *)
(* dataset operations that feed it.                                          *)

NextDatasets ==
    \/ Tick
    \/ DatasetCreatePost
    \/ DatasetList
    \/ DatasetDetail
    \/ DatasetDestroy
    \/ Respond

SpecDatasets == Init /\ [][NextDatasets]_vars

NextUpload ==
    \/ DatasetCreatePost
    \/ DatasetDestroy
    \/ UploadGet
    \/ UploadPost
    \/ Respond

SpecUpload == Init /\ [][NextUpload]_vars

NextStars ==
    \/ DatasetCreatePost
    \/ DatasetDestroy
    \/ StarList
    \/ StarCreate
    \/ StarDestroy
    \/ Respond

SpecStars == Init /\ [][NextStars]_vars

(* ------------------- concurrent creation requests ---------------------- *)

\* A worker takes a creation request and validates it: the dataset form with
\* valid input, or the star serializer against the rows stored at that moment.
ConcValidate ==
    \E w \in Workers, kind \in {"dataset", "star"}, user \in Users, arg \in Names \cup DatasetIds :
        /\ workers[w].pc = "idle"
        /\ IF kind = "dataset" THEN arg \in Names ELSE arg \in DatasetIds
        /\ LET ok == kind = "dataset" \/ StarSerializerIsValid(user, arg)
           IN workers' = [workers EXCEPT ![w] =
                  [pc |-> IF ok THEN "validated" ELSE "done", kind |-> kind,
                   user |-> user, arg |-> arg,
                   outcome |-> IF ok THEN "none" ELSE "Http404"]]
        /\ UNCHANGED <<store, counters, clock, resp>>

\* The save step of a validated dataset creation.
ConcSaveDataset ==
    \E w \in Workers :
        /\ workers[w].pc = "validated"
        /\ workers[w].kind = "dataset"
        /\ DatasetCreateFormValid(
               [Blank("DatasetCreateView", workers[w].user) EXCEPT
                    !.account = workers[w].user, !.slug = workers[w].arg],
               workers[w].user, workers[w].arg)
        /\ workers' = [workers EXCEPT ![w].pc = "done", ![w].outcome = resp'.outcome]
        /\ UNCHANGED <<files, stars, nextFile, nextStar, clock>>

\* The save step of a validated star creation.
ConcSaveStar ==
    \E w \in Workers :
        /\ workers[w].pc = "validated"
        /\ workers[w].kind = "star"
        /\ StarCreateSave(
               [Blank("StarredDatasetsViewSet.create", workers[w].user) EXCEPT
                    !.dataset_id = workers[w].arg],
               workers[w].user, workers[w].arg)
        /\ workers' = [workers EXCEPT ![w].pc = "done", ![w].outcome = resp'.outcome]
        /\ UNCHANGED <<datasets, files, nextDataset, nextFile, clock>>

\* The response is sent and the worker is free again.
ConcFinish ==
    \E w \in Workers :
        /\ workers[w].pc = "done"
        /\ workers' = [workers EXCEPT ![w] = IdleWorker]
        /\ UNCHANGED <<store, counters, clock, resp>>

NextConc ==
    \/ ConcValidate
    \/ ConcSaveDataset
    \/ ConcSaveStar
    \/ ConcFinish

SpecConc == Init /\ [][NextConc]_vars

(* ------------------------------- claims -------------------------------- *)

CreateHandlers == {"DatasetCreateView"}
UploadHandlers == {"DataFileUploadView.get", "DataFileUploadView.post"}

DatasetsOf(owner, name) == {d \in datasets : d.owner = owner /\ d.name = name}
FilesOf(dataset, content) == {f \in files : f.dataset = dataset /\ f.content = content}
StarsOf(user, dataset) == {s \in stars : s.user = user /\ s.dataset = dataset}

\* (owner, name) names at most one stored Dataset.
DatasetsUnique ==
    \A d, e \in datasets : (d.owner = e.owner /\ d.name = e.name) => d = e

\* (user, dataset) names at most one stored star.
StarsUnique ==
    \A s, t \in stars : (s.user = t.user /\ s.dataset = t.dataset) => s = t

\* C1: a dataset-create request with valid form input whose (owner, name) is not
\* stored inserts exactly one Dataset row owned by the current user and redirects
\* to it; one whose (owner, name) is stored inserts nothing, changes nothing and
\* re-renders the form with the duplicate-name error; (owner, name) stays unique.
C1_CreateInsertsOnceOrReportsDuplicate ==
    /\ []DatasetsUnique
    /\ [][(resp'.handler \in CreateHandlers /\ resp'.valid) =>
            IF DatasetsOf(resp'.user, resp'.slug) # {}
            THEN /\ datasets' = datasets
                 /\ resp'.outcome = "render"
                 /\ resp'.errors = DuplicateDatasetMsg
            ELSE /\ \E d \in datasets' \ datasets :
                        /\ datasets' = datasets \cup {d}
                        /\ d.owner = resp'.user
                        /\ d.name = resp'.slug
                        /\ resp'.target = d.id
                 /\ resp'.outcome = "redirect"
                 /\ resp'.errors = ""]_vars

\* C1 witness: a second creation of a stored (owner, name) was answered with the
\* duplicate-name error.
C1_Witness ==
    /\ resp.handler \in CreateHandlers
    /\ resp.outcome = "render"
    /\ resp.errors = DuplicateDatasetMsg
    /\ DatasetsOf(resp.user, resp.slug) # {}

\* The upload request names, in its URL and in its form, one stored dataset.
UploadToOneDataset(r) ==
    \E d \in datasets : d.owner = r.account /\ d.name = r.slug /\ d.id = r.dataset_id

\* C2: a valid upload to one dataset of content not stored for it inserts exactly
\* one DataFile row linked to that dataset and redirects to the dataset; content
\* already stored for it inserts nothing and re-renders the form with the
\* duplicate-file error.
C2_UploadInsertsOnceOrReportsDuplicate ==
    [][(resp'.handler = "DataFileUploadView.post" /\ resp'.valid /\ UploadToOneDataset(resp')) =>
          IF FilesOf(resp'.dataset_id, resp'.content) # {}
          THEN /\ files' = files
               /\ resp'.outcome = "render"
               /\ resp'.errors = DuplicateFileMsg
          ELSE /\ \E f \in files' \ files :
                      /\ files' = files \cup {f}
                      /\ f.dataset = resp'.dataset_id
                      /\ f.content = resp'.content
               /\ resp'.outcome = "redirect"
               /\ resp'.target = resp'.dataset_id]_vars

\* C2 witness: the same content was uploaded to one dataset a second time and
\* the form came back with the duplicate-file error.
C2_Witness ==
    /\ resp.handler = "DataFileUploadView.post"
    /\ UploadToOneDataset(resp)
    /\ resp.outcome = "render"
    /\ resp.errors = DuplicateFileMsg
    /\ Cardinality(FilesOf(resp.dataset_id, resp.content)) = 1

\* The number of entries of a star list that reference the dataset.
Entries(list, dataset) == Cardinality({i \in 1..Len(list) : list[i].dataset = dataset})

\* C3: list returns exactly the requesting user's stars; after a successful
\* create the user has exactly one star of the dataset; a destroy of a stored
\* star leaves none and answers "starred status deleted"; create and destroy
\* touch no star of another user or another dataset.
C3_StarsOfTheRequestingUser ==
    [][/\ resp'.handler = "StarredDatasetsViewSet.list" =>
            /\ \A i \in 1..Len(resp'.list) : resp'.list[i].user = resp'.user
            /\ \A d \in DatasetIds :
                   Entries(resp'.list, d) = Cardinality({s \in stars' : s.user = resp'.user /\ s.dataset = d})
       /\ (resp'.handler = "StarredDatasetsViewSet.create" /\ resp'.outcome = "response") =>
            Cardinality({s \in stars' : s.user = resp'.user /\ s.dataset = resp'.dataset_id}) = 1
       /\ (resp'.handler = "StarredDatasetsViewSet.destroy" /\ StarsOf(resp'.user, resp'.dataset_id) # {}) =>
            /\ {s \in stars' : s.user = resp'.user /\ s.dataset = resp'.dataset_id} = {}
            /\ resp'.outcome = "response"
            /\ resp'.body = StarDeletedBody
       /\ resp'.handler \in {"StarredDatasetsViewSet.create", "StarredDatasetsViewSet.destroy"} =>
            \A s \in (stars' \ stars) \cup (stars \ stars') :
                s.user = resp'.user /\ s.dataset = resp'.dataset_id]_vars

\* C3 witness: a user lists stars and gets one, while another user has a star too.
C3_Witness ==
    /\ resp.handler = "StarredDatasetsViewSet.list"
    /\ Len(resp.list) = 1
    /\ \E s \in stars : s.user # resp.user

\* C4: create answers a failed validation with Http404 and stores nothing; after
\* a successful validation the star is saved and the body is "starred status
\* created".
C4_CreateMapsInvalidToNotFound ==
    [][resp'.handler = "StarredDatasetsViewSet.create" =>
          IF resp'.valid
          THEN /\ \E s \in stars' \ stars :
                      /\ stars' = stars \cup {s}
                      /\ s.user = resp'.user
                      /\ s.dataset = resp'.dataset_id
               /\ resp'.outcome = "response"
               /\ resp'.body = StarCreatedBody
          ELSE /\ stars' = stars
               /\ resp'.outcome = "Http404"]_vars

\* C4 witness: starring a dataset a second time failed validation and was
\* answered with Http404.
C4_Witness ==
    /\ resp.handler = "StarredDatasetsViewSet.create"
    /\ resp.outcome = "Http404"
    /\ StarsOf(resp.user, resp.dataset_id) # {}

\* C5: destroy with no star of (user, dataset_id) ends in an error, not in the
\* "starred status deleted" body, and removes or changes no star.
C5_DestroyOfMissingStarFails ==
    [][(resp'.handler = "StarredDatasetsViewSet.destroy" /\ StarsOf(resp'.user, resp'.dataset_id) = {}) =>
          /\ resp'.outcome = "AttributeError"
          /\ resp'.body # StarDeletedBody
          /\ stars' = stars]_vars

\* C5 witness: a destroy found no star of the user and the dataset, while other
\* stars are stored.
C5_Witness ==
    /\ resp.handler = "StarredDatasetsViewSet.destroy"
    /\ resp.outcome = "AttributeError"
    /\ stars # {}

HandledOutcomes == {"redirect", "render", "response", "Http404"}

\* C6: concurrent creations of one (owner, name) or one (user, dataset) pair
\* persist exactly one row of the pair, and every finished creation ended in a
\* response of the handler, never in an unhandled error.
C6_ConcurrentCreateIsHandled ==
    /\ DatasetsUnique
    /\ StarsUnique
    /\ \A w \in Workers : workers[w].pc = "done" => workers[w].outcome \in HandledOutcomes

C8_UploadOfMissingDatasetIsNotFound ==
    [][(/\ resp'.handler \in UploadHandlers
        /\ resp'.outcome # "redirect"
        /\ DatasetsOf(resp'.account, resp'.slug) = {}) =>
          /\ resp'.outcome = "Http404"
          /\ files' = files]_vars

\* C9: whenever the upload page is rendered, context['dataset'] is the Dataset
\* of the URL's (account, slug), never an uploaded file.
C9_UploadContextIsTheDataset ==
    (resp.handler \in UploadHandlers /\ resp.outcome = "render") =>
        /\ resp.ctxKind = "Dataset"
        /\ \E d \in DatasetsOf(resp.account, resp.slug) : d.id = resp.ctxId

\* C9 witness: the upload page was rendered again after a duplicate file.
C9_Witness ==
    /\ resp.handler = "DataFileUploadView.post"
    /\ resp.outcome = "render"
    /\ resp.errors = DuplicateFileMsg

\* C10: the list page's num_datasets is the number of stored Datasets; it has
\* latest_dataset exactly when there is a Dataset, and that is the creation time
\* of the Dataset created last; the latest lookup never fails on an empty table
\* and the request changes no row.
C10_ListCountsAndLatest ==
    [][resp'.handler = "DatasetListView" =>
          /\ resp'.outcome = "render"
          /\ resp'.num = Cardinality(datasets)
          /\ resp'.hasLatest <=> datasets # {}
          /\ resp'.hasLatest =>
                \E d \in datasets : /\ \A e \in datasets : e.id <= d.id
                                    /\ resp'.latest = d.created
          /\ UNCHANGED store]_vars

\* C10 witness: the list page was built over two datasets created at different
\* times and shows the later time.
C10_Witness ==
    /\ resp.handler = "DatasetListView"
    /\ resp.hasLatest
    /\ resp.num = 2
    /\ \E d, e \in datasets : d.created < e.created /\ resp.latest = e.created

====
